---- MODULE Spec2Model ----
(***************************************************************************)
(* Model of dbt/adapters/clickhouse/connections.py:                        *)
(* ClickhouseConnectionManager (open, cancel, execute, add_query and the   *)
(* exception_handler context manager) over one connection per thread.      *)
(*                                                                         *)
(* The driver (clickhouse_driver.Client) and the inherited                 *)
(* SQLConnectionManager methods (release, _add_query_comment,              *)
(* get_thread_connection) are collaborators: their outcomes are inputs     *)
(* drawn nondeterministically.                                             *)
(***************************************************************************)
EXTENDS Integers, Sequences, FiniteSets, TLC

\* ------------------------------------------------------------------ bounds
Threads == {"t1", "t2"}

\* Longest server message.
MaxMsgLen == 1

\* ------------------------------------------------------------ text values
\* Characters of a server message: one whitespace, one non-whitespace.
Chars == {" ", "a"}

Whitespace == {" "}

\* All server messages, i.e. the values of str(e) for a ServerException e.
ServerMsgs == UNION {[1..n -> Chars] : n \in 0..MaxMsgLen}

\* str(e) of every failure that is not a server error.
OtherMsg == <<"a">>

RECURSIVE lstrip(_)
lstrip(s) ==
    IF s = <<>> THEN <<>>
    ELSE IF Head(s) \in Whitespace THEN lstrip(Tail(s))
    ELSE s

RECURSIVE rstrip(_)
rstrip(s) ==
    IF s = <<>> THEN <<>>
    ELSE IF s[Len(s)] \in Whitespace THEN rstrip(SubSeq(s, 1, Len(s) - 1))
    ELSE s

\* str.strip()
strip(s) == rstrip(lstrip(s))

\* ------------------------------------------------------------- exceptions
\* An exception is its class, its message and the class of the exception
\* it was raised from ("none" when it is an original failure).
Err(cls, msg, wraps) == [cls |-> cls, msg |-> msg, wraps |-> wraps]

NoErr == Err("none", <<>>, "none")

\* errors.ServerException with server text m
ServerException(m) == Err("ServerException", m, "none")

\* any other clickhouse_driver errors.Error (NetworkError, ...)
DriverError == Err("DriverError", OtherMsg, "none")

\* an exception that is neither a driver error nor a dbt error
OtherException == Err("Exception", OtherMsg, "none")

\* client.execute on conn.handle = None
AttributeError == Err("AttributeError", OtherMsg, "none")

\* a dbt.exceptions.RuntimeException raised by dbt's own helpers
DomainError == Err("RuntimeException", OtherMsg, "none")

\* isinstance(e, errors.ServerException)
IsServerException(e) == e.cls = "ServerException"

\* isinstance(e, errors.Error): ServerException is a subclass of Error
IsDriverError(e) == e.cls \in {"ServerException", "DriverError"}

\* isinstance(e, dbt.exceptions.RuntimeException): DatabaseException and
\* FailedToConnectException are subclasses of RuntimeException
IsRuntimeException(e) ==
    e.cls \in {"RuntimeException", "DatabaseException", "FailedToConnectException"}

\* ------------------------------------------------------------------ state
\* connection.handle = None
None == <<>>

\* The identities of Client objects: each is constructed by open for one
\* thread's connection; two per thread, so that a new Client differs from
\* the one the connection refers to.
SessionIds == Threads \X {1, 2}

VARIABLES
    conn,       \* conn[t]: the thread's Connection: state and handle
    connected,  \* the sessions in use whose link to the server is up
    pc,         \* pc[t]: "idle", or "inflight" inside client.execute
    cur,        \* cur[t]: the statement call that is in flight
    last,       \* the call that completed most recently, as its caller saw it
    fn          \* a call of a function that takes no connection: f(arg) = res

vars == <<conn, connected, pc, cur, last, fn>>

\* cancelled: cancel was called on the connection while the call was in flight
NoCall == [op |-> "none", fetch |-> FALSE, client |-> None, cancelled |-> FALSE]

NoRet == [status |-> "none", table |-> "none"]

NoFn == [f |-> "none", arg |-> None, res |-> None, done |-> FALSE]

NoLast ==
    [thread |-> "t1", op |-> "none", fetch |-> FALSE,
     pre |-> "init", preHandle |-> None,
     stage |-> "none", cause |-> NoErr, err |-> NoErr,
     released |-> 0, rel |-> "none", reached |-> FALSE, dialed |-> 0,
     cancelled |-> FALSE, ret |-> NoRet]

Init ==
    /\ conn = [t \in Threads |-> [state |-> "init", handle |-> None]]
    /\ connected = {}
    /\ pc = [t \in Threads |-> "idle"]
    /\ cur = [t \in Threads |-> NoCall]
    /\ last = NoLast
    /\ fn = NoFn

\* --------------------------------------------------- collaborators' inputs
\* What Client(...) can do: return a session, or raise.
ClientOutcomes ==
    {NoErr, DriverError, OtherException} \cup {ServerException(m) : m \in ServerMsgs}

\* (mutant) a session answers although its link is down
DriverOutcomes_ignores_disconnect(client) ==
    {NoErr, DriverError, OtherException}
        \cup {ServerException(m) : m \in ServerMsgs}

\* What client.execute can do on a session: a session whose link is down
\* cannot get an answer from the server.
DriverOutcomes(client) ==
    IF client \in connected
    THEN {NoErr, DriverError, OtherException}
             \cup {ServerException(m) : m \in ServerMsgs}
    ELSE {DriverError, OtherException}

\* What the steps before the translator scope can do (_add_query_comment,
\* get_thread_connection, conn.handle) on a thread that has a connection.
PreOutcomes == {NoErr, OtherException}

\* What get_table_from_response can do.
TableOutcomes == {NoErr, DomainError, OtherException}

\* What release can do: only closing a live session can fail.
ReleaseOutcomes(c) ==
    IF c.state = "open" THEN {"ok", "DriverError", "Exception"} ELSE {"ok"}

\* release is called only when the wrapped block raised.
HandlerReleaseOutcomes(c, cause) ==
    IF cause = NoErr THEN {"ok"} ELSE ReleaseOutcomes(c)

\* ----------------------------------------------------------------- release
\* SQLConnectionManager.release on the thread's connection: closes the
\* session if open and sets state = Closed; a no-op on a connection that is
\* not open. The handle reference is kept. A release that raises leaves the
\* connection as it was.
release(c, ro) ==
    IF c.state # "open" THEN [conn |-> c, err |-> NoErr]
    ELSE IF ro = "ok"
    THEN [conn |-> [c EXCEPT !.state = "closed"], err |-> NoErr]
    ELSE [conn |-> c, err |-> Err(ro, OtherMsg, "none")]

\* The sessions still linked after release(c, ro).
release_sessions(c, ro, up) ==
    IF c.state = "open" /\ ro = "ok" THEN up \ {c.handle} ELSE up

\* -------------------------------------------------------- exception_handler
\* Mutant: the server branch raises the QueryError without releasing.
server_branch_no_release(c, cause, ro) ==
    [conn |-> c,
     err |-> Err("DatabaseException", strip(cause.msg), cause.cls),
     released |-> 0, rel |-> "none"]

\* Mutant: the server branch lets a failing release propagate.
server_branch_no_swallow(c, cause, ro) ==
    LET r == release(c, ro)
    IN  [conn |-> r.conn,
         err |-> IF r.err = NoErr
                 THEN Err("DatabaseException", strip(cause.msg), cause.cls)
                 ELSE r.err,
         released |-> 1, rel |-> ro]

\* except errors.ServerException as e: release, swallowing errors.Error, then
\* raise DatabaseException(str(e).strip()) from e
server_branch(c, cause, ro) ==
    LET r == release(c, ro)
    IN  [conn |-> r.conn,
         err |-> IF r.err = NoErr \/ IsDriverError(r.err)
                 THEN Err("DatabaseException", strip(cause.msg), cause.cls)
                 ELSE r.err,
         released |-> 1, rel |-> ro]

\* Mutant: the generic branch wraps every cause, dbt errors included.
generic_branch_always_wrap(c, cause, ro) ==
    LET r == release(c, ro)
    IN  [conn |-> r.conn,
         err |-> IF r.err # NoErr THEN r.err
                 ELSE Err("RuntimeException", cause.msg, cause.cls),
         released |-> 1, rel |-> ro]

\* Mutant: the generic branch re-raises every cause as it is.
generic_branch_never_wrap(c, cause, ro) ==
    LET r == release(c, ro)
    IN  [conn |-> r.conn,
         err |-> IF r.err # NoErr THEN r.err ELSE cause,
         released |-> 1, rel |-> ro]

\* Mutant: the generic branch marks the connection failed instead of
\* releasing it.
generic_branch_mark_fail(c, cause, ro) ==
    [conn |-> [c EXCEPT !.state = "fail"],
     err |-> IF IsRuntimeException(cause) THEN cause
             ELSE Err("RuntimeException", cause.msg, cause.cls),
     released |-> 1, rel |-> "ok"]

\* except Exception as e: release, then re-raise a dbt RuntimeException as
\* it is, or raise RuntimeException(e) from e
generic_branch(c, cause, ro) ==
    LET r == release(c, ro)
    IN  [conn |-> r.conn,
         err |-> IF r.err # NoErr THEN r.err
                 ELSE IF IsRuntimeException(cause) THEN cause
                 ELSE Err("RuntimeException", cause.msg, cause.cls),
         released |-> 1, rel |-> ro]

\* Mutant: the context manager releases the connection on every exit, also
\* when the wrapped block completed.
exception_handler_always_release(c, cause, ro) ==
    IF cause = NoErr
    THEN [conn |-> release(c, "ok").conn, err |-> NoErr,
          released |-> 1, rel |-> "ok"]
    ELSE IF IsServerException(cause) THEN server_branch(c, cause, ro)
    ELSE generic_branch(c, cause, ro)

\* The context manager around a statement: cause is what the wrapped block
\* raised (NoErr when it completed), ro is what release does if called.
exception_handler(c, cause, ro) ==
    IF cause = NoErr
    THEN [conn |-> c, err |-> NoErr, released |-> 0, rel |-> "none"]
    ELSE IF IsServerException(cause) THEN server_branch(c, cause, ro)
    ELSE generic_branch(c, cause, ro)

\* -------------------------------------------------------------------- open
\* Mutant: open dials again on a connection that is already open.
open_always_dial(c, o, id) ==
    IF o = NoErr
    THEN [conn |-> [state |-> "open", handle |-> id], err |-> NoErr, dialed |-> 1]
    ELSE IF IsServerException(o)
    THEN [conn |-> [state |-> "fail", handle |-> None],
          err |-> Err("FailedToConnectException", o.msg, o.cls),
          dialed |-> 1]
    ELSE [conn |-> c, err |-> o, dialed |-> 1]

\* Mutant: a failed open keeps the handle the connection had.
open_keep_handle(c, o, id) ==
    IF c.state = "open"
    THEN [conn |-> c, err |-> NoErr, dialed |-> 0]
    ELSE IF o = NoErr
    THEN [conn |-> [state |-> "open", handle |-> id], err |-> NoErr, dialed |-> 1]
    ELSE IF IsServerException(o)
    THEN [conn |-> [c EXCEPT !.state = "fail"],
          err |-> Err("FailedToConnectException", o.msg, o.cls),
          dialed |-> 1]
    ELSE [conn |-> c, err |-> o, dialed |-> 1]

\* Mutant: open treats every error of Client(...) as a server error.
open_catch_all(c, o, id) ==
    IF c.state = "open"
    THEN [conn |-> c, err |-> NoErr, dialed |-> 0]
    ELSE IF o = NoErr
    THEN [conn |-> [state |-> "open", handle |-> id], err |-> NoErr, dialed |-> 1]
    ELSE [conn |-> [state |-> "fail", handle |-> None],
          err |-> Err("FailedToConnectException", o.msg, o.cls),
          dialed |-> 1]

\* open(connection): o is what Client(...) does, id the new session.
open(c, o, id) ==
    IF c.state = "open"
    THEN [conn |-> c, err |-> NoErr, dialed |-> 0]
    ELSE IF o = NoErr
    THEN [conn |-> [state |-> "open", handle |-> id], err |-> NoErr, dialed |-> 1]
    ELSE IF IsServerException(o)
    THEN [conn |-> [state |-> "fail", handle |-> None],
          err |-> Err("FailedToConnectException", o.msg, o.cls),
          dialed |-> 1]
    ELSE [conn |-> c, err |-> o, dialed |-> 1]

\* The Client object a call of Client(...) constructs for the connection of
\* thread t: an object that no connection refers to.
NewSession(t) ==
    IF conn[t].handle = <<t, 1>> THEN <<t, 2>> ELSE <<t, 1>>

Open(t) ==
    /\ pc[t] = "idle"
    /\ \E o \in (IF conn[t].state = "open" THEN {NoErr} ELSE ClientOutcomes) :
         LET r == open(conn[t], o, NewSession(t)) IN
         /\ conn' = [conn EXCEPT ![t] = r.conn]
         /\ connected' =
                IF r.conn.handle = conn[t].handle THEN connected
                ELSE (connected \ {conn[t].handle}) \cup ({r.conn.handle} \ {None})
         /\ last' = [NoLast EXCEPT !.thread = t, !.op = "open",
                        !.pre = conn[t].state, !.preHandle = conn[t].handle,
                        !.stage = IF r.err = NoErr THEN "none" ELSE "client",
                        !.cause = IF r.dialed = 1 THEN o ELSE NoErr,
                        !.err = r.err, !.dialed = r.dialed]
    /\ UNCHANGED <<pc, cur, fn>>

\* ------------------------------------------------------------------ cancel
\* Mutant: cancel also marks the connection closed.
Cancel_marks_closed(t) ==
    /\ conn[t].handle # None
    /\ connected' = connected \ {conn[t].handle}
    /\ conn' = [conn EXCEPT ![t].state = "closed"]
    /\ cur' = IF pc[t] = "inflight"
              THEN [cur EXCEPT ![t].cancelled = TRUE] ELSE cur
    /\ UNCHANGED <<pc, last, fn>>

\* cancel(connection): connection.handle.disconnect(), from any context.
Cancel(t) ==
    /\ conn[t].handle # None
    /\ connected' = connected \ {conn[t].handle}
    /\ cur' = IF pc[t] = "inflight"
              THEN [cur EXCEPT ![t].cancelled = TRUE] ELSE cur
    /\ UNCHANGED <<conn, pc, last, fn>>

\* ----------------------------------------------------------------- Release
\* An explicit release() by the thread that owns the connection.
Release(t) ==
    /\ pc[t] = "idle"
    /\ \E ro \in ReleaseOutcomes(conn[t]) :
         LET r == release(conn[t], ro) IN
         /\ conn' = [conn EXCEPT ![t] = r.conn]
         /\ connected' = release_sessions(conn[t], ro, connected)
         /\ last' = [NoLast EXCEPT !.thread = t, !.op = "release",
                        !.pre = conn[t].state, !.preHandle = conn[t].handle,
                        !.stage = IF r.err = NoErr THEN "none" ELSE "release",
                        !.cause = r.err, !.err = r.err,
                        !.released = 1, !.rel = ro]
    /\ UNCHANGED <<pc, cur, fn>>

\* -------------------------------------------------------------- statements
get_status == "OK"

\* (mutant) execute materializes the response also without fetch
execute_ret_always_materializes(fetch) ==
    [status |-> get_status, table |-> "rows"]

\* The return value of execute: (status, table).
execute_ret(fetch) ==
    [status |-> get_status, table |-> IF fetch THEN "rows" ELSE "empty"]

\* The return value of add_query: the function has no return statement.
add_query_ret == NoRet

\* What the block inside the translator scope raises: d is what
\* client.execute did, m what get_table_from_response does when reached.
execute_body(d, fetch, m) ==
    IF d # NoErr THEN [stage |-> "driver", cause |-> d]
    ELSE IF fetch /\ m # NoErr THEN [stage |-> "table", cause |-> m]
    ELSE [stage |-> "none", cause |-> NoErr]

\* get_table_from_response runs only after client.execute returned, with fetch.
ReachedTableOutcomes(d, fetch) ==
    IF d = NoErr /\ fetch THEN TableOutcomes ELSE {NoErr}

\* (mutant) add_query lets a domain error of the driver call pass as success
add_query_body_passes_domain_error(d) ==
    IF d # NoErr /\ d # DomainError THEN [stage |-> "driver", cause |-> d]
    ELSE [stage |-> "none", cause |-> NoErr]

\* What the block of add_query raises: d is what client.execute did.
add_query_body(d) ==
    IF d # NoErr THEN [stage |-> "driver", cause |-> d]
    ELSE [stage |-> "none", cause |-> NoErr]

\* The call leaves the translator scope: b is what the block raised.
Finish(t, op, fetch, b, reached, ro, ret) ==
    LET h == exception_handler(conn[t], b.cause, ro) IN
    /\ conn' = [conn EXCEPT ![t] = h.conn]
    /\ connected' = IF h.released = 1
                    THEN release_sessions(conn[t], ro, connected)
                    ELSE connected
    /\ pc' = [pc EXCEPT ![t] = "idle"]
    /\ cur' = [cur EXCEPT ![t] = NoCall]
    /\ last' = [NoLast EXCEPT !.thread = t, !.op = op, !.fetch = fetch,
                   !.pre = conn[t].state, !.preHandle = conn[t].handle,
                   !.stage = b.stage, !.cause = b.cause, !.err = h.err,
                   !.released = h.released, !.rel = h.rel,
                   !.reached = reached, !.cancelled = cur[t].cancelled,
                   !.ret = IF h.err = NoErr THEN ret ELSE NoRet]
    /\ UNCHANGED fn

\* The call fails before the translator scope is entered.
FailBefore(t, op, fetch, p) ==
    /\ last' = [NoLast EXCEPT !.thread = t, !.op = op, !.fetch = fetch,
                   !.pre = conn[t].state, !.preHandle = conn[t].handle,
                   !.stage = "pre", !.cause = p, !.err = p]
    /\ UNCHANGED <<conn, connected, pc, cur, fn>>

\* Mutant: the statement is submitted on the session of another thread's
\* connection.
Submit_on_other_connection(t, op, fetch) ==
    /\ pc' = [pc EXCEPT ![t] = "inflight"]
    /\ cur' = [cur EXCEPT ![t] =
                  [op |-> op, fetch |-> fetch,
                   client |-> conn[CHOOSE u \in Threads : u # t].handle,
                   cancelled |-> FALSE]]
    /\ UNCHANGED <<conn, connected, last, fn>>

\* client.execute is submitted on the handle's session and blocks.
Submit(t, op, fetch) ==
    /\ pc' = [pc EXCEPT ![t] = "inflight"]
    /\ cur' = [cur EXCEPT ![t] =
                  [op |-> op, fetch |-> fetch, client |-> conn[t].handle,
                   cancelled |-> FALSE]]
    /\ UNCHANGED <<conn, connected, last, fn>>

\* execute(sql, fetch) up to the driver call.
ExecuteBegin(t) ==
    /\ pc[t] = "idle"
    /\ \E fetch \in BOOLEAN, p \in PreOutcomes :
         IF p # NoErr THEN FailBefore(t, "execute", fetch, p)
         ELSE IF conn[t].handle = None
         THEN \E ro \in ReleaseOutcomes(conn[t]) :
                Finish(t, "execute", fetch,
                       execute_body(AttributeError, fetch, NoErr),
                       FALSE, ro, execute_ret(fetch))
         ELSE Submit(t, "execute", fetch)

\* execute(sql, fetch) from the driver's answer on.
ExecuteReturn(t) ==
    /\ pc[t] = "inflight"
    /\ cur[t].op = "execute"
    /\ \E d \in DriverOutcomes(cur[t].client) :
       \E m \in ReachedTableOutcomes(d, cur[t].fetch) :
       \E ro \in HandlerReleaseOutcomes(conn[t], execute_body(d, cur[t].fetch, m).cause) :
         Finish(t, "execute", cur[t].fetch,
                execute_body(d, cur[t].fetch, m),
                TRUE, ro, execute_ret(cur[t].fetch))

\* add_query(sql) up to the driver call.
AddQueryBegin(t) ==
    /\ pc[t] = "idle"
    /\ \E p \in PreOutcomes :
         IF p # NoErr THEN FailBefore(t, "add_query", FALSE, p)
         ELSE IF conn[t].handle = None
         THEN \E ro \in ReleaseOutcomes(conn[t]) :
                Finish(t, "add_query", FALSE, add_query_body(AttributeError),
                       FALSE, ro, add_query_ret)
         ELSE Submit(t, "add_query", FALSE)

\* add_query(sql) from the driver's answer on.
AddQueryReturn(t) ==
    /\ pc[t] = "inflight"
    /\ cur[t].op = "add_query"
    /\ \E d \in DriverOutcomes(cur[t].client) :
       \E ro \in HandlerReleaseOutcomes(conn[t], add_query_body(d).cause) :
         Finish(t, "add_query", FALSE, add_query_body(d), TRUE, ro, add_query_ret)

\* ----------------------------------------------------------- specification
Next ==
    \E t \in Threads :
        \/ Open(t)
        \/ Cancel(t)
        \/ Release(t)
        \/ ExecuteBegin(t)
        \/ ExecuteReturn(t)
        \/ AddQueryBegin(t)
        \/ AddQueryReturn(t)

Spec == Init /\ [][Next]_vars

\* The threads scheduled when progress is checked: a statement reads and
\* writes the connection of its own thread only, so one thread is enough.
LiveThreads == {"t1"}

NextLive ==
    \E t \in LiveThreads :
        \/ Open(t)
        \/ Cancel(t)
        \/ Release(t)
        \/ ExecuteBegin(t)
        \/ ExecuteReturn(t)
        \/ AddQueryBegin(t)
        \/ AddQueryReturn(t)

\* client.execute blocks for at most the timeouts of the transport
\* (send_receive_timeout, sync_request_timeout): a call in flight returns.
Fairness ==
    \A t \in LiveThreads :
        WF_vars(ExecuteReturn(t)) /\ WF_vars(AddQueryReturn(t))

SpecLive == Init /\ [][NextLive]_vars /\ Fairness

TypeOK ==
    /\ \A t \in Threads :
         /\ conn[t].state \in {"init", "open", "fail", "closed"}
         /\ conn[t].handle \in SessionIds \cup {None}
         /\ pc[t] \in {"idle", "inflight"}
    /\ connected \subseteq {conn[t].handle : t \in Threads} \ {None}

\* ------------------------------------------------------------ credentials
\* None in an Optional[str] field.
Absent == "None"

Names == {"s1", "s2"}

\* ClickhouseCredentials as the dataclass fills it from a profile.
Credentials ==
    [host : {"localhost"}, port : {Absent}, user : {"default"},
     database : Names \cup {Absent}, schema : Names \cup {Absent},
     password : {"", "p"}, cluster : {Absent, "c1"},
     secure : {FALSE}, verify : {FALSE}]

\* (mutant) the database is kept when it equals the schema
post_init_keeps_database(cred) ==
    IF cred.database # Absent /\ cred.database # cred.schema
    THEN [err |-> Err("RuntimeException",
                      [schema |-> cred.schema, database |-> cred.database,
                       cluster |-> cred.cluster], "none"),
          cred |-> cred]
    ELSE [err |-> NoErr, cred |-> cred]

\* __post_init__: the message of the error carries the three values.
post_init(cred) ==
    IF cred.database # Absent /\ cred.database # cred.schema
    THEN [err |-> Err("RuntimeException",
                      [schema |-> cred.schema, database |-> cred.database,
                       cluster |-> cred.cluster], "none"),
          cred |-> cred]
    ELSE [err |-> NoErr, cred |-> [cred EXCEPT !.database = Absent]]

\* (mutant) the password is listed
connection_keys_with_password(cred) ==
    <<"host", "port", "user", "schema", "password", "secure", "verify">>

\* _connection_keys
connection_keys(cred) ==
    <<"host", "port", "user", "schema", "secure", "verify">>

\* The calls of the two functions that are made on a descriptor.
CredentialCalls ==
    [f : {"post_init", "connection_keys"}, arg : Credentials,
     res : {None}, done : {FALSE}]

PostInit ==
    /\ fn.f = "post_init"
    /\ ~fn.done
    /\ fn' = [fn EXCEPT !.res = post_init(fn.arg), !.done = TRUE]
    /\ UNCHANGED <<conn, connected, pc, cur, last>>

ConnectionKeys ==
    /\ fn.f = "connection_keys"
    /\ ~fn.done
    /\ fn' = [fn EXCEPT !.res = connection_keys(fn.arg), !.done = TRUE]
    /\ UNCHANGED <<conn, connected, pc, cur, last>>

\* ----------------------------------------------------------------- tables
MaxCols == 2
MaxRows == 2

ColumnNames == {"a", "b"}
Values == {1, 2}

SeqsUpTo(S, n) == UNION {[1..k -> S] : k \in 0..n}

\* columns as the driver gives them with with_column_types: (name, type)
ColumnLists == SeqsUpTo(ColumnNames \X {"T"}, MaxCols)

\* the rows of a response: one value for each column
Responses(columns) == SeqsUpTo([1..Len(columns) -> Values], MaxRows)

\* dict(zip(column_names, row)): a key that occurs twice keeps the value
\* that was zipped last.
dict_zip(column_names, row) ==
    LET n == IF Len(column_names) < Len(row)
             THEN Len(column_names) ELSE Len(row)
        at(k) == {i \in 1..n : column_names[i] = k}
    IN [k \in {column_names[i] : i \in 1..n} |->
           row[CHOOSE i \in at(k) : \A j \in at(k) : j <= i]]

\* dbt.clients.agate_helper.table_from_data_flat: each row of the table is
\* read out of its dict by column name.
table_from_data_flat(data, column_names) ==
    [column_names |-> column_names,
     rows |-> [r \in 1..Len(data) |->
                  [i \in 1..Len(column_names) |-> data[r][column_names[i]]]]]

\* dbt.clients.agate_helper.empty_table: no columns, no rows.
empty_table == [column_names |-> <<>>, rows |-> <<>>]

get_table_from_response(response, columns) ==
    LET column_names == [i \in 1..Len(columns) |-> columns[i][1]]
        data == [r \in 1..Len(response) |-> dict_zip(column_names, response[r])]
    IN table_from_data_flat(data, column_names)

\* What a successful statement gives its caller, when the driver answered
\* (response, columns): whether get_table_from_response ran, and the table.
statement_result(op, fetch, response, columns) ==
    LET ret == IF op = "execute" THEN execute_ret(fetch) ELSE add_query_ret IN
    [status |-> ret.status,
     materialized |-> ret.table = "rows",
     table |-> CASE ret.table = "rows" ->
                        get_table_from_response(response, columns)
                 [] ret.table = "empty" -> empty_table
                 [] OTHER -> None]

TableCalls ==
    {[f |-> "get_table_from_response",
      arg |-> [response |-> response, columns |-> columns],
      res |-> None, done |-> FALSE] :
        <<columns, response>> \in
            UNION {{c} \X Responses(c) : c \in ColumnLists}}

StatementCalls ==
    {[f |-> "statement",
      arg |-> [op |-> of[1], fetch |-> of[2],
               response |-> cr[2], columns |-> cr[1]],
      res |-> None, done |-> FALSE] :
        of \in {<<"execute", TRUE>>, <<"execute", FALSE>>,
                <<"add_query", FALSE>>},
        cr \in UNION {{c} \X Responses(c) : c \in ColumnLists}}

GetTableFromResponse ==
    /\ fn.f = "get_table_from_response"
    /\ ~fn.done
    /\ fn' = [fn EXCEPT
                 !.res = get_table_from_response(fn.arg.response, fn.arg.columns),
                 !.done = TRUE]
    /\ UNCHANGED <<conn, connected, pc, cur, last>>

StatementSucceeds ==
    /\ fn.f = "statement"
    /\ ~fn.done
    /\ fn' = [fn EXCEPT
                 !.res = statement_result(fn.arg.op, fn.arg.fetch,
                                          fn.arg.response, fn.arg.columns),
                 !.done = TRUE]
    /\ UNCHANGED <<conn, connected, pc, cur, last>>

\* ------------------------------------------------- the two entry points
\* The connections a statement can find, and a session on them.
ConnectionStates ==
    [state : {"init", "open", "closed", "fail"}, handle : {None, <<"t1", 1>>}]

\* What the driver call raises: on no handle, the attribute error; on a
\* session, a server-side error, another driver error, an unexpected failure
\* or a domain error.
DriverFailures(c) ==
    IF c.handle = None THEN {AttributeError}
    ELSE {DriverError, OtherException, DomainError}
             \cup {ServerException(m) : m \in ServerMsgs}

\* How a statement whose driver call raised d ends for its caller.
failed_statement(b, c, ro) ==
    LET h == exception_handler(c, b.cause, ro) IN
    [err |-> h.err, conn |-> h.conn, released |-> h.released]

EntryPointCalls ==
    {[f |-> "entry_points", arg |-> [c |-> c, d |-> d, ro |-> ro],
      res |-> None, done |-> FALSE] :
        <<c, d, ro>> \in
            UNION {{c} \X DriverFailures(c) \X ReleaseOutcomes(c) :
                      c \in ConnectionStates}}

\* The same failure of the driver call, in execute with fetch and in
\* add_query, on the same connection with the same release.
EntryPoints ==
    /\ fn.f = "entry_points"
    /\ ~fn.done
    /\ fn' = [fn EXCEPT
                 !.res = [execute |->
                              failed_statement(
                                  execute_body(fn.arg.d, TRUE, NoErr),
                                  fn.arg.c, fn.arg.ro),
                          add_query |->
                              failed_statement(
                                  add_query_body(fn.arg.d),
                                  fn.arg.c, fn.arg.ro)],
                 !.done = TRUE]
    /\ UNCHANGED <<conn, connected, pc, cur, last>>

\* ---------------------------------------------- functions of no connection
InitFn ==
    /\ conn = [t \in Threads |-> [state |-> "init", handle |-> None]]
    /\ connected = {}
    /\ pc = [t \in Threads |-> "idle"]
    /\ cur = [t \in Threads |-> NoCall]
    /\ last = NoLast
    /\ fn \in CredentialCalls \cup TableCalls \cup StatementCalls
                  \cup EntryPointCalls

NextFn ==
    \/ PostInit
    \/ ConnectionKeys
    \/ GetTableFromResponse
    \/ StatementSucceeds
    \/ EntryPoints

SpecFn == InitFn /\ [][NextFn]_vars

\* ------------------------------------------------------------------ claims
\* The call that completed last was a statement (execute or add_query).
LastIsStatement == last.op \in {"execute", "add_query"}

\* The state and handle of the connection of the thread that made that call.
LastConn == conn[last.thread]

\* The caller got a QueryError or a RuntimeError.
LastIsQueryOrRuntimeError ==
    last.err.cls \in {"DatabaseException", "RuntimeException"}

\* The failure was raised by the block inside the translator scope.
LastFailedInScope == last.stage \in {"driver", "table"}

C2_NoStatementUnlessOpen ==
    /\ \A t \in Threads : pc[t] = "inflight" => conn[t].state = "open"
    /\ (LastIsStatement /\ last.pre # "open")
           => (last.err # NoErr /\ ~last.reached)

\* C3 (as stated): a server error inside the scope always reaches the caller
\* as a QueryError with the stripped server text, after one release attempt,
\* whatever the release does.
C3_QueryErrorWhateverReleaseDoes ==
    (LastIsStatement /\ IsServerException(last.cause))
        => /\ last.err.cls = "DatabaseException"
           /\ last.err.msg = strip(last.cause.msg)
           /\ last.released = 1

\* C3 (amended): a server error inside the scope reaches the caller as a
\* QueryError with the stripped server text after one release attempt,
\* also when the release fails with a driver error; a release that fails
\* with any other exception replaces the QueryError.
C3_QueryErrorUnlessReleaseRaisesOther ==
    (LastIsStatement /\ IsServerException(last.cause))
        => /\ last.released = 1
           /\ last.rel # "Exception"
                 => /\ last.err.cls = "DatabaseException"
                    /\ last.err.msg = strip(last.cause.msg)
                    /\ last.err.wraps = "ServerException"
           /\ last.rel = "Exception" => last.err.cls = "Exception"

\* C3 witness: the release failed with a driver error and the caller still
\* got the QueryError.
C3_Witness ==
    /\ LastIsStatement
    /\ IsServerException(last.cause)
    /\ last.rel = "DriverError"
    /\ last.err.cls = "DatabaseException"

\* The failure raised inside the scope was not a driver server error.
LastFailedInScopeNotServer ==
    LastIsStatement /\ LastFailedInScope /\ ~IsServerException(last.cause)

\* C4 (as stated): for a failure inside the scope that is not a server
\* error, the connection is released and the caller gets a RuntimeError
\* wrapping the cause, or the identical error when the cause is a dbt error.
C4_ReleasedThenRuntimeError ==
    LastFailedInScopeNotServer
        => /\ last.released = 1
           /\ IF IsRuntimeException(last.cause)
              THEN last.err = last.cause
              ELSE last.err = Err("RuntimeException", last.cause.msg, last.cause.cls)

\* C4 (amended): for a failure inside the scope that is not a server error,
\* release is called once before anything propagates; if the release
\* returns, the caller gets a RuntimeError wrapping the cause, or the
\* identical error when the cause is a dbt error; if the release raises,
\* its error propagates instead.
C4_ReleasedThenRuntimeErrorUnlessReleaseRaises ==
    LastFailedInScopeNotServer
        => /\ last.released = 1
           /\ last.rel = "ok"
                 => IF IsRuntimeException(last.cause)
                    THEN last.err = last.cause
                    ELSE last.err =
                             Err("RuntimeException", last.cause.msg, last.cause.cls)
           /\ last.rel # "ok" => last.err = Err(last.rel, OtherMsg, "none")

\* C4 witness: a dbt error raised inside the scope on an Open connection
\* came back as the same error, after the release.
C4_Witness ==
    /\ LastFailedInScopeNotServer
    /\ IsRuntimeException(last.cause)
    /\ last.err = last.cause
    /\ last.pre = "open"
    /\ LastConn.state = "closed"

\* C5 (as stated): every error that escapes a statement is a dbt error kind
\* and the connection cleanup has run exactly once.
C5_EveryErrorTranslatedOnce ==
    (LastIsStatement /\ last.err # NoErr)
        => IsRuntimeException(last.err) /\ last.released = 1

\* C5 (amended): a failure raised inside the translator scope is followed by
\* exactly one release, and reaches the caller as a dbt error kind, never
\* twice wrapped, unless the release raised an error the translator does not
\* swallow, which then escapes as it is; a failure raised before the scope
\* (query comment, thread connection) escapes as it is, with no release.
C5_TranslatedOnceInsideScope ==
    (LastIsStatement /\ last.err # NoErr)
        => /\ LastFailedInScope
                 => /\ last.released = 1
                    /\ \/ /\ IsRuntimeException(last.err)
                          /\ last.err.wraps # "RuntimeException"
                       \/ /\ last.rel # "ok"
                          /\ ~(IsServerException(last.cause) /\ last.rel = "DriverError")
                          /\ last.err.cls = last.rel
           /\ last.stage = "pre" => (last.err = last.cause /\ last.released = 0)

\* C5 witness: an exception that is no driver error and no dbt error was
\* raised inside the scope and reached the caller wrapped in a RuntimeError.
C5_Witness ==
    /\ LastIsStatement
    /\ last.stage = "table"
    /\ last.cause.cls = "Exception"
    /\ last.err.cls = "RuntimeException"
    /\ last.released = 1

\* C6: open on a connection that is already Open dials nothing, raises
\* nothing and leaves the state and the handle as they were.
C6_OpenOnOpenIsNoOp ==
    (last.op = "open" /\ last.pre = "open")
        => /\ last.dialed = 0
           /\ last.err = NoErr
           /\ LastConn = [state |-> "open", handle |-> last.preHandle]

\* C6 witness: open was called on an Open connection and returned without
\* dialing, the connection still referring to the session it had.
C6_Witness ==
    /\ last.op = "open"
    /\ last.pre = "open"
    /\ last.dialed = 0
    /\ LastConn.handle # None
    /\ LastConn.handle = last.preHandle

\* C7: when open dials and the driver raises a server error, the connection
\* ends in state Fail with handle None, the caller gets a ConnectionError,
\* and the driver was dialed once.
C7_ServerErrorOnOpen ==
    (last.op = "open" /\ last.pre # "open" /\ IsServerException(last.cause))
        => /\ LastConn = [state |-> "fail", handle |-> None]
           /\ last.err.cls = "FailedToConnectException"
           /\ last.dialed = 1

\* C7 witness: a reopen of a Closed connection that still held its old
\* session failed with a server error.
C7_Witness ==
    /\ last.op = "open"
    /\ last.pre = "closed"
    /\ last.preHandle # None
    /\ IsServerException(last.cause)
    /\ LastConn.state = "fail"

\* C8 (as stated): after open on a connection that was not Open, the
\* connection is Open (success) or Fail with a ConnectionError (any failure).
C8_OpenEndsOpenOrFail ==
    (last.op = "open" /\ last.pre # "open")
        => \/ (last.err = NoErr /\ LastConn.state = "open")
           \/ (last.err.cls = "FailedToConnectException" /\ LastConn.state = "fail")

\* C8 (amended): after open on a connection that was not Open, the
\* connection is Open on success and Fail with a ConnectionError on a server
\* error; any other error of the driver reaches the caller as it is and
\* leaves the state and the handle as they were.
C8_OpenEndsOpenFailOrUnchanged ==
    (last.op = "open" /\ last.pre # "open")
        => \/ /\ last.cause = NoErr
              /\ last.err = NoErr
              /\ LastConn.state = "open"
           \/ /\ IsServerException(last.cause)
              /\ last.err.cls = "FailedToConnectException"
              /\ LastConn.state = "fail"
           \/ /\ last.cause # NoErr
              /\ ~IsServerException(last.cause)
              /\ last.err = last.cause
              /\ LastConn = [state |-> last.pre, handle |-> last.preHandle]

\* C8 witness: the driver raised an error that is not a server error and the
\* connection is still Init.
C8_Witness ==
    /\ last.op = "open"
    /\ last.cause.cls = "DriverError"
    /\ last.err.cls = "DriverError"
    /\ LastConn.state = "init"

\* The state changes allowed by the claim as stated.
C9_StatedTransitions ==
    {<<"init", "open">>, <<"init", "fail">>, <<"open", "closed">>,
     <<"open", "fail">>, <<"closed", "open">>}

\* C9 (as stated): the state of a connection changes only along Init -> Open,
\* Init -> Fail, Open -> Closed, Open -> Fail and Closed -> Open.
C9_OnlyStatedTransitions ==
    [][\A t \in Threads :
          conn'[t].state # conn[t].state
              => <<conn[t].state, conn'[t].state>> \in C9_StatedTransitions]_vars

\* The state changes the operations make: open on a connection that is not
\* Open, and release.
C9_ActualTransitions ==
    ({"init", "fail", "closed"} \X {"open", "fail"})
        \cup ({"init", "open", "fail", "closed"} \X {"closed"})

\* C9 (amended): the state of a connection changes only by open on a
\* connection that is not Open (Init, Fail or Closed -> Open or Fail) and by
\* release (-> Closed); an Open connection never becomes Fail and no
\* connection returns to Init.
C9_OnlyActualTransitions ==
    [][\A t \in Threads :
          conn'[t].state # conn[t].state
              => <<conn[t].state, conn'[t].state>> \in C9_ActualTransitions]_vars

\* C9 witness: a connection that was Fail has been opened.
C9_Witness ==
    /\ last.op = "open"
    /\ last.pre = "fail"
    /\ LastConn.state = "open"

\* C10 (as stated): the ConnectionError of open and the QueryError of the
\* translator both carry the server message with surrounding whitespace
\* stripped.
C10_ServerTextStripped ==
    (/\ last.err.cls \in {"FailedToConnectException", "DatabaseException"}
     /\ IsServerException(last.cause))
        => last.err.msg = strip(last.cause.msg)

\* C11 (as stated): a successful add_query returns the status computed by
\* get_status, and no row data.
C11_AddQueryReturnsStatus ==
    (last.op = "add_query" /\ last.err = NoErr)
        => (last.ret.status = get_status /\ last.ret.table = "none")

\* C18: a statement that completes normally on an Open connection leaves the
\* connection Open with the session it had, release is not called, and the
\* status execute returns is "OK".
C18_SuccessKeepsConnectionOpen ==
    (LastIsStatement /\ last.err = NoErr /\ last.pre = "open")
        => /\ LastConn = [state |-> "open", handle |-> last.preHandle]
           /\ last.released = 0
           /\ last.reached
           /\ last.op = "execute" => last.ret.status = "OK"

\* C18 witness: an execute on an Open connection completed normally.
C18_Witness ==
    /\ last.op = "execute"
    /\ last.err = NoErr
    /\ last.pre = "open"
    /\ last.ret.status = "OK"
    /\ LastConn.state = "open"

\* Every statement in flight runs on the session of its own thread's
\* connection, and no two statements in flight share a session.
C19_OwnSession ==
    \A t \in Threads :
        pc[t] = "inflight"
            => /\ cur[t].client = conn[t].handle
               /\ \A u \in Threads \ {t} :
                     pc[u] = "inflight" => cur[u].client # cur[t].client

\* C19: in every interleaving each statement runs on the session of the
\* calling thread's own connection, no two statements in flight share a
\* session, and the step in which a thread's statement returns or fails
\* changes the state, the handle and the session link of no other thread.
C19_StatementsAreIsolated ==
    [][/\ C19_OwnSession'
       /\ \A t \in Threads :
             (pc[t] = "inflight" /\ pc'[t] = "idle")
                 => \A u \in Threads \ {t} :
                       /\ conn'[u] = conn[u]
                       /\ (conn[u].handle \in connected')
                              = (conn[u].handle \in connected)]_vars

\* C19 witness: the statement of t1 failed and t1's connection was released
\* while t2, whose connection is still Open and linked, has a statement in
\* flight.
C19_Witness ==
    /\ last.thread = "t1"
    /\ LastIsStatement
    /\ last.err # NoErr
    /\ last.pre = "open"
    /\ conn["t1"].state = "closed"
    /\ pc["t2"] = "inflight"
    /\ conn["t2"].state = "open"
    /\ conn["t2"].handle \in connected

\* C20: a cancel step disconnects the session and leaves the state and the
\* handle of every connection as they were.
C20_CancelKeepsState ==
    [][\A t \in Threads : Cancel(t) => conn' = conn]_vars

\* C20 witness: the session of an Open connection has been disconnected by
\* cancel and the connection is still Open.
C20_Witness ==
    \E t \in Threads :
        /\ conn[t].state = "open"
        /\ conn[t].handle # None
        /\ conn[t].handle \notin connected

\* The last completed call was a statement on an Open connection that was
\* cancelled while it was in flight.
LastWasCancelledInFlight ==
    LastIsStatement /\ last.cancelled /\ last.pre = "open"

C13_Outcome ==
    /\ last.cause # NoErr
    /\ ~IsServerException(last.cause)
    /\ last.released = 1
    /\ IF last.rel = "ok"
       THEN /\ last.err = Err("RuntimeException", last.cause.msg, last.cause.cls)
            /\ LastConn.state = "closed"
       ELSE /\ last.err = Err(last.rel, OtherMsg, "none")
            /\ LastConn.state = "open"

C14_Constructed ==
    (fn.f = "post_init" /\ fn.done)
        => /\ (fn.res.err = NoErr)
                  <=> (fn.arg.database = Absent \/ fn.arg.database = fn.arg.schema)
           /\ fn.res.err = NoErr
                  => fn.res.cred = [fn.arg EXCEPT !.database = Absent]
           /\ fn.res.err # NoErr
                  => /\ IsRuntimeException(fn.res.err)
                     /\ fn.res.err.msg.schema = fn.arg.schema
                     /\ fn.res.err.msg.database = fn.arg.database

C14_CredentialConstruction ==
    [][PostInit => (C14_Constructed' /\ UNCHANGED <<conn, connected>>)]_vars

\* C14 witness: a descriptor whose database equals its schema was
\* constructed, and its database is now absent.
C14_Witness ==
    /\ fn.f = "post_init"
    /\ fn.done
    /\ fn.arg.database = "s1"
    /\ fn.arg.schema = "s1"
    /\ fn.res.err = NoErr
    /\ fn.res.cred.database = Absent

\* The names of the declared columns, in order.
DeclaredNames(columns) == [i \in 1..Len(columns) |-> columns[i][1]]

\* C15: without fetch (execute with fetch = False, add_query) the
\* materializer does not run and no rows come back: execute returns the
\* empty table whatever the driver answered, add_query returns no table; with
\* fetch and a response of zero rows the table has zero rows and the
\* declared column names.
C15_ExecuteOnlyNeverMaterializes ==
    (fn.f = "statement" /\ fn.done)
        => IF fn.arg.op = "add_query"
           THEN ~fn.res.materialized /\ fn.res.table = None
           ELSE IF ~fn.arg.fetch
           THEN ~fn.res.materialized /\ fn.res.table = empty_table
           ELSE /\ fn.res.materialized
                /\ fn.arg.response = <<>>
                      => /\ fn.res.table.rows = <<>>
                         /\ fn.res.table.column_names
                                = DeclaredNames(fn.arg.columns)

\* C15 witness: execute without fetch returned the empty table although the
\* driver answered with rows.
C15_Witness ==
    /\ fn.f = "statement"
    /\ fn.done
    /\ fn.arg.op = "execute"
    /\ ~fn.arg.fetch
    /\ Len(fn.arg.response) > 0
    /\ Len(fn.arg.columns) > 0
    /\ fn.res.table = empty_table

\* C16: the table has the given column names in the given order, as many
\* rows as the response, and value i of every row under column i, also when
\* two columns have the same name.
C16_PositionalMaterialization ==
    (fn.f = "get_table_from_response" /\ fn.done)
        => /\ fn.res.column_names = DeclaredNames(fn.arg.columns)
           /\ Len(fn.res.rows) = Len(fn.arg.response)
           /\ \A r \in 1..Len(fn.arg.response) :
                \A i \in 1..Len(fn.arg.columns) :
                    fn.res.rows[r][i] = fn.arg.response[r][i]

\* C17: the connection keys are host, port, user, schema, secure and verify,
\* whatever the descriptor and its password: password is not one of them.
C17_PasswordNeverListed ==
    (fn.f = "connection_keys" /\ fn.done)
        => /\ \A i \in 1..Len(fn.res) : fn.res[i] # "password"
           /\ {fn.res[i] : i \in 1..Len(fn.res)}
                  = {"host", "port", "user", "schema", "secure", "verify"}

\* C17 witness: the keys of a descriptor that has a password were listed.
C17_Witness ==
    /\ fn.f = "connection_keys"
    /\ fn.done
    /\ fn.arg.password = "p"
    /\ Len(fn.res) > 0

====
